---- MODULE Spec2Model ----
(***************************************************************************)
(* Model of the electricity plan recommender (src/src/plan_recommender.py). *)
(*                                                                         *)
(* Conventions of the model:                                               *)
(*  - a Python str is a sequence of one-character strings, so that split,   *)
(*    lower and int are computed character by character;                   *)
(*  - kWh figures are exact: integers for readings and sums, normalised     *)
(*    fractions <<n, d>> (d > 0) for every quotient, where the code uses    *)
(*    IEEE doubles;                                                        *)
(*  - a timestamp is the record [year, month, day, hour, minute]; the       *)
(*    weekday is computed from the date;                                   *)
(*  - the outcome of a call is a record [status |-> "ok", value |-> v] or   *)
(*    [status |-> <name of the exception raised>].                          *)
(***************************************************************************)
EXTENDS Integers, Sequences, FiniteSets, TLC

VARIABLES
    consumption_file,   \* rows of the cleaned consumption CSV (self.consumption_file)
    plans_file,         \* rows of the plan catalog CSV (self.plans_file)
    consumption_data,   \* self.consumption_data: None or a frame of readings
    plans_data,         \* self.plans_data: None or a frame of plans
    active_months,      \* self.active_months: list of <<year, month>>
    result,             \* the last call and what it returned or raised
    evaluations,        \* calls of calculate_plan_savings in progress on other
                        \* threads: position, local names, outcome
    raw_file            \* lines of the utility export handed to the parser

vars == <<consumption_file, plans_file, consumption_data, plans_data,
          active_months, result, evaluations, raw_file>>

\* A DataFrame: its rows and, for readings, whether the derived 'year_month'
\* column has been added to it.
None == [none |-> TRUE]
Frame(rows, has_year_month) == [rows |-> rows, has_year_month |-> has_year_month]

-----------------------------------------------------------------------------
(* Generic helpers *)

Range(s) == {s[i] : i \in 1..Len(s)}

RECURSIVE SeqSum(_)
SeqSum(s) == IF s = <<>> THEN 0 ELSE Head(s) + SeqSum(Tail(s))

SelectIdx(s, Test(_)) ==
    \* indices of s, in order, whose element passes Test
    LET F[i \in 0..Len(s)] ==
            IF i = 0 THEN <<>>
            ELSE IF Test(s[i]) THEN Append(F[i-1], i) ELSE F[i-1]
    IN F[Len(s)]

Abs(x) == IF x < 0 THEN -x ELSE x

RECURSIVE GCD(_, _)
GCD(a, b) == IF b = 0 THEN a ELSE GCD(b, a % b)

\* Exact fractions, normalised (denominator > 0, lowest terms).
Frac(n, d) ==
    LET g == GCD(Abs(n), Abs(d))
        s == IF d < 0 THEN -1 ELSE 1
    IN <<(s * n) \div g, (s * d) \div g>>

FInt(n) == <<n, 1>>
FAdd(a, b) == Frac(a[1] * b[2] + b[1] * a[2], a[2] * b[2])
FSub(a, b) == Frac(a[1] * b[2] - b[1] * a[2], a[2] * b[2])
FMul(a, b) == Frac(a[1] * b[1], a[2] * b[2])
FDiv(a, b) == Frac(a[1] * b[2], a[2] * b[1])
FLe(a, b) == a[1] * b[2] <= b[1] * a[2]
FLt(a, b) == a[1] * b[2] < b[1] * a[2]
FZero == FInt(0)

Pow10(k) == IF k = 0 THEN 1 ELSE IF k = 1 THEN 10 ELSE IF k = 2 THEN 100 ELSE 1000

-----------------------------------------------------------------------------
(* Python str operations, on sequences of characters *)

UpperChars == <<"A","B","C","D","E","F","G","H","I","J","K","L","M",
                "N","O","P","Q","R","S","T","U","V","W","X","Y","Z">>
LowerChars == <<"a","b","c","d","e","f","g","h","i","j","k","l","m",
                "n","o","p","q","r","s","t","u","v","w","x","y","z">>
DigitChars == <<"0","1","2","3","4","5","6","7","8","9">>

LowerOf == [c \in Range(UpperChars) |->
               LowerChars[CHOOSE i \in 1..Len(UpperChars) : UpperChars[i] = c]]
UpperOf == [c \in Range(LowerChars) |->
               UpperChars[CHOOSE i \in 1..Len(LowerChars) : LowerChars[i] = c]]
DigitOf == [c \in Range(DigitChars) |->
               (CHOOSE i \in 1..Len(DigitChars) : DigitChars[i] = c) - 1]

LowerChar(c) == IF c \in DOMAIN LowerOf THEN LowerOf[c] ELSE c

\* str.lower()
Lower(s) == [i \in 1..Len(s) |-> LowerChar(s[i])]

\* sep in s
Contains(s, sep) == \E i \in 1..Len(s) : s[i] = sep

\* s.split(sep) for a one-character separator
RECURSIVE SplitFrom(_, _, _, _)
SplitFrom(s, sep, i, piece) ==
    IF i > Len(s) THEN <<piece>>
    ELSE IF s[i] = sep THEN <<piece>> \o SplitFrom(s, sep, i + 1, <<>>)
    ELSE SplitFrom(s, sep, i + 1, Append(piece, s[i]))

Split(s, sep) == SplitFrom(s, sep, 1, <<>>)

IsDigit(c) == c \in DOMAIN DigitOf
DigitVal(c) == DigitOf[c]

RECURSIVE DigitsVal(_)
DigitsVal(s) ==
    IF s = <<>> THEN 0
    ELSE DigitsVal(SubSeq(s, 1, Len(s) - 1)) * 10 + DigitVal(s[Len(s)])

RECURSIVE Strip(_)
Strip(s) ==
    IF s # <<>> /\ Head(s) = " " THEN Strip(Tail(s))
    ELSE IF s # <<>> /\ s[Len(s)] = " " THEN Strip(SubSeq(s, 1, Len(s) - 1))
    ELSE s

\* int(s): surrounding blanks and one leading sign are accepted, then only
\* decimal digits; anything else raises ValueError.
PyInt(s) ==
    LET t == Strip(s)
        signed == t # <<>> /\ Head(t) \in {"+", "-"}
        body == IF signed THEN Tail(t) ELSE t
    IN IF body # <<>> /\ \A i \in 1..Len(body) : IsDigit(body[i])
       THEN [status |-> "ok",
             value |-> IF signed /\ Head(t) = "-" THEN -DigitsVal(body) ELSE DigitsVal(body)]
       ELSE [status |-> "ValueError"]

-----------------------------------------------------------------------------
(* Dates *)

\* timestamp.dt.weekday: Monday = 0 .. Sunday = 6, from the Gregorian date.
Weekday(ts) ==
    LET t == <<0, 3, 2, 5, 0, 3, 5, 1, 4, 6, 2, 4>>
        y == IF ts.month < 3 THEN ts.year - 1 ELSE ts.year
        sundayBased == (y + (y \div 4) - (y \div 100) + (y \div 400)
                        + t[ts.month] + ts.day) % 7
    IN (sundayBased + 6) % 7

\* timestamp.dt.to_period('M'), read back as (x.year, x.month)
YearMonth(ts) == <<ts.year, ts.month>>

MonthLt(a, b) == a[1] < b[1] \/ (a[1] = b[1] /\ a[2] < b[2])

\* The keys of a groupby, ascending.
RECURSIVE SortedMonths(_)
SortedMonths(S) ==
    IF S = {} THEN <<>>
    ELSE LET m == CHOOSE x \in S : \A y \in S \ {x} : MonthLt(x, y)
         IN <<m>> \o SortedMonths(S \ {m})

KwhOf(rows, idxs) == SeqSum([k \in 1..Len(idxs) |-> rows[idxs[k]].kwh_consumption])

-----------------------------------------------------------------------------
(* PlanRecommender.parse_day_range / parse_time_range *)

Monday    == <<"m","o","n","d","a","y">>
Tuesday   == <<"t","u","e","s","d","a","y">>
Wednesday == <<"w","e","d","n","e","s","d","a","y">>
Thursday  == <<"t","h","u","r","s","d","a","y">>
Friday    == <<"f","r","i","d","a","y">>
Saturday  == <<"s","a","t","u","r","d","a","y">>
Sunday    == <<"s","u","n","d","a","y">>

\* day_mapping, as the list of its keys: the key at position i maps to i - 1.
day_mapping == <<Monday, Tuesday, Wednesday, Thursday, Friday, Saturday, Sunday>>

DayNumOf == [name \in Range(day_mapping) |->
                (CHOOSE i \in 1..Len(day_mapping) : day_mapping[i] = name) - 1]
InDayMapping(name) == name \in DOMAIN DayNumOf
DayNum(name) == DayNumOf[name]

\* list(range(a, b))
PyRange(a, b) == [i \in 1..(IF b > a THEN b - a ELSE 0) |-> a + i - 1]

\* Variant: no wrap-around branch.
parse_day_range_no_wrap(day_range) ==
    IF Contains(day_range, "-")
    THEN LET parts == Split(Lower(day_range), "-")
         IN IF Len(parts) # 2 THEN [status |-> "ValueError"]
            ELSE IF ~InDayMapping(parts[1]) \/ ~InDayMapping(parts[2])
            THEN [status |-> "KeyError"]
            ELSE [status |-> "ok",
                  value |-> PyRange(DayNum(parts[1]), DayNum(parts[2]) + 1)]
    ELSE IF InDayMapping(Lower(day_range))
         THEN [status |-> "ok", value |-> <<DayNum(Lower(day_range))>>]
         ELSE [status |-> "KeyError"]

parse_day_range(day_range) ==
    IF Contains(day_range, "-")
    THEN LET parts == Split(Lower(day_range), "-")
         IN IF Len(parts) # 2 THEN [status |-> "ValueError"]
            ELSE IF ~InDayMapping(parts[1]) \/ ~InDayMapping(parts[2])
            THEN [status |-> "KeyError"]
            ELSE LET start_num == DayNum(parts[1])
                     end_num == DayNum(parts[2])
                 IN IF start_num <= end_num
                    THEN [status |-> "ok", value |-> PyRange(start_num, end_num + 1)]
                    ELSE [status |-> "ok",
                          value |-> PyRange(start_num, 7) \o PyRange(0, end_num + 1)]
    ELSE IF InDayMapping(Lower(day_range))
         THEN [status |-> "ok", value |-> <<DayNum(Lower(day_range))>>]
         ELSE [status |-> "KeyError"]

\* map(int, s.split(':')) unpacked into two names
ParseHourMinute(s) ==
    LET parts == Split(s, ":")
    IN IF Len(parts) # 2 THEN [status |-> "ValueError"]
       ELSE LET h == PyInt(parts[1])
                m == PyInt(parts[2])
            IN IF h.status # "ok" \/ m.status # "ok" THEN [status |-> "ValueError"]
               ELSE [status |-> "ok", value |-> <<h.value, m.value>>]

parse_time_range(time_range) ==
    LET parts == Split(time_range, "-")
    IN IF Len(parts) # 2 THEN [status |-> "ValueError"]
       ELSE LET s == ParseHourMinute(parts[1])
                e == ParseHourMinute(parts[2])
            IN IF s.status # "ok" \/ e.status # "ok" THEN [status |-> "ValueError"]
               ELSE [status |-> "ok",
                     value |-> [start_hour |-> s.value[1], start_minute |-> s.value[2],
                                end_hour |-> e.value[1], end_minute |-> e.value[2]]]

-----------------------------------------------------------------------------
(* PlanRecommender.identify_active_months *)

MonthsOf(rows) == {YearMonth(rows[i].timestamp) : i \in 1..Len(rows)}

\* groupby('year_month')['kwh_consumption'].sum() for one key
MonthTotal(rows, ym) ==
    LET InMonth(r) == YearMonth(r.timestamp) = ym
    IN KwhOf(rows, SelectIdx(rows, InMonth))

\* monthly_consumption.max(); only used when there is at least one month
MaxMonthly(rows) ==
    LET S == MonthsOf(rows)
    IN MonthTotal(rows, CHOOSE m \in S : \A o \in S : MonthTotal(rows, o) <= MonthTotal(rows, m))

\* Variant: a month exactly at the threshold is skipped.
MeetsThreshold_strict(consumption, max_monthly_consumption, max_consumption_threshold) ==
    FLt(FMul(FInt(max_monthly_consumption), max_consumption_threshold), FInt(consumption))

\* consumption >= min_consumption_threshold
MeetsThreshold(consumption, max_monthly_consumption, max_consumption_threshold) ==
    FLe(FMul(FInt(max_monthly_consumption), max_consumption_threshold), FInt(consumption))

\* The list the loop of identify_active_months builds, in groupby (ascending) order.
ActiveMonthsOf(rows, max_consumption_threshold) ==
    LET months == SortedMonths(MonthsOf(rows))
        max_monthly_consumption == MaxMonthly(rows)
        Active(ym) == MeetsThreshold(MonthTotal(rows, ym), max_monthly_consumption,
                                     max_consumption_threshold)
        idxs == SelectIdx(months, Active)
    IN [k \in 1..Len(idxs) |-> months[idxs[k]]]

-----------------------------------------------------------------------------
(* PlanRecommender.calculate_plan_savings *)

\* Variant: the end of a same-day window is included.
time_eligible_closed_end(hour, minute, start_hour, start_minute, end_hour, end_minute) ==
    IF start_hour <= end_hour
    THEN /\ (hour > start_hour \/ (hour = start_hour /\ minute >= start_minute))
         /\ (hour < end_hour \/ (hour = end_hour /\ minute <= end_minute))
    ELSE \/ hour > start_hour
         \/ (hour = start_hour /\ minute >= start_minute)
         \/ hour < end_hour
         \/ (hour = end_hour /\ minute < end_minute)

\* Variant: equal hours take the overnight branch.
time_eligible_strict_branch(hour, minute, start_hour, start_minute, end_hour, end_minute) ==
    IF start_hour < end_hour
    THEN /\ (hour > start_hour \/ (hour = start_hour /\ minute >= start_minute))
         /\ (hour < end_hour \/ (hour = end_hour /\ minute < end_minute))
    ELSE \/ hour > start_hour
         \/ (hour = start_hour /\ minute >= start_minute)
         \/ hour < end_hour
         \/ (hour = end_hour /\ minute < end_minute)

\* time_eligible for one row: the branch is chosen on the hours alone.
time_eligible(hour, minute, start_hour, start_minute, end_hour, end_minute) ==
    IF start_hour <= end_hour
    THEN /\ (hour > start_hour \/ (hour = start_hour /\ minute >= start_minute))
         /\ (hour < end_hour \/ (hour = end_hour /\ minute < end_minute))
    ELSE \/ hour > start_hour
         \/ (hour = start_hour /\ minute >= start_minute)
         \/ hour < end_hour
         \/ (hour = end_hour /\ minute < end_minute)

\* day_eligible for one row: weekday.isin(applicable_days)
day_eligible(ts, applicable_days) == Weekday(ts) \in Range(applicable_days)

\* eligible_mask for one row
eligible_mask(row, applicable_days, w) ==
    /\ day_eligible(row.timestamp, applicable_days)
    /\ time_eligible(row.timestamp.hour, row.timestamp.minute,
                     w.start_hour, w.start_minute, w.end_hour, w.end_minute)

\* Row positions of active_consumption within consumption_data.
ActiveIdx(rows, months) ==
    LET InActive(r) == YearMonth(r.timestamp) \in Range(months)
    IN SelectIdx(rows, InActive)

\* Variant: the mask is applied to every loaded row, active month or not.
EligibleIdx_all_rows(rows, months, applicable_days, w) ==
    LET Eligible(r) == eligible_mask(r, applicable_days, w)
    IN SelectIdx(rows, Eligible)

\* Row positions of active_consumption.loc[eligible_mask].
EligibleIdx(rows, months, applicable_days, w) ==
    LET Eligible(r) == /\ YearMonth(r.timestamp) \in Range(months)
                       /\ eligible_mask(r, applicable_days, w)
    IN SelectIdx(rows, Eligible)

\* Variant: the discount is applied to the whole consumption.
SavingsFigures_whole_bill(discounted_consumption, total_consumption, discount_percentage, num_months) ==
    LET total_savings == FMul(FInt(total_consumption), discount_percentage)
        monthly_savings ==
            IF num_months > 0 THEN FDiv(total_savings, FInt(num_months)) ELSE FZero
        monthly_consumption ==
            IF num_months > 0 THEN FDiv(FInt(total_consumption), FInt(num_months)) ELSE FZero
    IN [total_consumption |-> total_consumption,
        discounted_consumption |-> discounted_consumption,
        monthly_savings |-> monthly_savings,
        monthly_consumption |-> monthly_consumption,
        bill_savings_percentage |->
            IF FLt(FZero, monthly_consumption)
            THEN FMul(FDiv(monthly_savings, monthly_consumption), FInt(100)) ELSE FZero,
        applicable_consumption_percentage |->
            IF total_consumption > 0
            THEN FMul(Frac(discounted_consumption, total_consumption), FInt(100)) ELSE FZero,
        total_savings |-> total_savings,
        num_active_months |-> num_months]

\* The figures computed once active_consumption is known to be non-empty.
SavingsFigures(discounted_consumption, total_consumption, discount_percentage, num_months) ==
    LET base_cost == FInt(total_consumption)
        discounted_cost ==
            FAdd(FInt(total_consumption - discounted_consumption),
                 FMul(FInt(discounted_consumption), FSub(FInt(1), discount_percentage)))
        total_savings == FSub(base_cost, discounted_cost)
        monthly_savings ==
            IF num_months > 0 THEN FDiv(total_savings, FInt(num_months)) ELSE FZero
        monthly_consumption ==
            IF num_months > 0 THEN FDiv(FInt(total_consumption), FInt(num_months)) ELSE FZero
        bill_savings_percentage ==
            IF FLt(FZero, monthly_consumption)
            THEN FMul(FDiv(monthly_savings, monthly_consumption), FInt(100)) ELSE FZero
        applicable_percentage ==
            IF total_consumption > 0
            THEN FMul(Frac(discounted_consumption, total_consumption), FInt(100)) ELSE FZero
    IN [total_consumption |-> total_consumption,
        discounted_consumption |-> discounted_consumption,
        monthly_savings |-> monthly_savings,
        monthly_consumption |-> monthly_consumption,
        bill_savings_percentage |-> bill_savings_percentage,
        applicable_consumption_percentage |-> applicable_percentage,
        total_savings |-> total_savings,
        num_active_months |-> num_months]

\* The dictionary returned when no row lies in an active month: four keys only.
EmptyFigures ==
    [total_consumption |-> 0,
     discounted_consumption |-> 0,
     monthly_savings |-> FZero,
     applicable_consumption_percentage |-> FZero]

\* Variant: the monthly figures divide by the number of months that hold an
\* eligible reading.
num_months_eligible(months, data, eligible) ==
    Cardinality({YearMonth(data[i].timestamp) : i \in Range(eligible)})

\* num_months = len(self.active_months)
num_months(months, data, eligible) == Len(months)

\* The report, given the row positions of active_consumption and of its
\* eligible rows.
ReportOf(plan, data, months, active, eligible) ==
    IF Len(active) = 0
    THEN [status |-> "ok", value |-> EmptyFigures]
    ELSE [status |-> "ok",
          value |-> SavingsFigures(KwhOf(data, eligible), KwhOf(data, active),
                                   Frac(plan.price_percentage_off, 100),
                                   num_months(months, data, eligible))]

\* The body of calculate_plan_savings after its two parser calls.
SavingsOfParsed(days, times, plan, frame, months) ==
    IF days.status # "ok" THEN [status |-> days.status]
    ELSE IF times.status # "ok" THEN [status |-> times.status]
    ELSE IF frame = None THEN [status |-> "TypeError"]
    ELSE IF ~frame.has_year_month THEN [status |-> "KeyError"]
    ELSE ReportOf(plan, frame.rows, months, ActiveIdx(frame.rows, months),
                  EligibleIdx(frame.rows, months, days.value, times.value))

calculate_plan_savings(plan, frame, months) ==
    SavingsOfParsed(parse_day_range(plan.week_days_applicable),
                    parse_time_range(plan.hours_applicable), plan, frame, months)

\* Variant: the eligibility mask is applied to self.consumption_data in place.
consumption_data_after_masked(plan, frame, months) ==
    LET days == parse_day_range(plan.week_days_applicable)
        times == parse_time_range(plan.hours_applicable)
    IN IF frame = None THEN frame
       ELSE IF ~frame.has_year_month \/ days.status # "ok" \/ times.status # "ok"
       THEN frame
       ELSE LET idx == EligibleIdx(frame.rows, months, days.value, times.value)
            IN Frame([k \in 1..Len(idx) |-> frame.rows[idx[k]]], TRUE)

\* self.consumption_data once calculate_plan_savings has run: the method works
\* on active_consumption, a copy, and never assigns to the attribute.
consumption_data_after(plan, frame, months) == frame

-----------------------------------------------------------------------------
(* PlanRecommender.generate_recommendations *)

\* round(x, ndigits) on an exact fraction, ties to even.
Round(x, ndigits) ==
    LET p == Pow10(ndigits)
        n == x[1] * p
        d == x[2]
        q == n \div d
        r == n - q * d
        up == 2 * r > d \/ (2 * r = d /\ q % 2 = 1)
    IN Frac(IF up THEN q + 1 ELSE q, p)

\* 0.5425 NIS per kWh * 1.18
NisPerKwh == FMul(Frac(5425, 10000), Frac(118, 100))

\* The row appended for the plan at position idx of the catalog.
Recommendation(idx, plan, savings_data) ==
    [idx |-> idx,
     plan_name |-> plan.plan_name,
     discount_percentage |-> plan.price_percentage_off,
     monthly_savings_kwh |-> Round(savings_data.monthly_savings, 2),
     monthly_savings_nis |-> Round(FMul(savings_data.monthly_savings, NisPerKwh), 2),
     bill_savings_percentage |-> Round(savings_data.bill_savings_percentage, 1),
     applicable_consumption_pct |-> Round(savings_data.applicable_consumption_percentage, 1),
     total_discounted_kwh |-> Round(FInt(savings_data.discounted_consumption), 2),
     active_months_analyzed |-> savings_data.num_active_months]

Injective(f) == \A a, b \in DOMAIN f : a # b => f[a] # f[b]

\* Variant: ascending order.
sort_values_ascending(rows) ==
    LET n == Len(rows)
        perms == {f \in [1..n -> 1..n] : Injective(f)}
    IN {[k \in 1..n |-> rows[f[k]]] : f \in
          {g \in perms : \A k \in 1..(n - 1) :
               FLe(rows[g[k]].monthly_savings_kwh, rows[g[k + 1]].monthly_savings_kwh)}}

\* recommendations_df.sort_values('monthly_savings_kwh', ascending=False): the
\* default sort kind is quicksort, which pandas documents as not stable, so
\* every descending arrangement of the rows is a possible outcome.
sort_values(rows) ==
    LET n == Len(rows)
        perms == {f \in [1..n -> 1..n] : Injective(f)}
    IN {[k \in 1..n |-> rows[f[k]]] : f \in
          {g \in perms : \A k \in 1..(n - 1) :
               FLe(rows[g[k + 1]].monthly_savings_kwh, rows[g[k]].monthly_savings_kwh)}}

\* Variant: a plan whose evaluation raised is left out and the others are ranked.
RankingOf_isolating(plans, savings) ==
    LET kept == SelectSeq([i \in 1..Len(plans) |-> i],
                          LAMBDA i : savings[i].status = "ok")
    IN {[status |-> "ok", value |-> sorted] : sorted \in
          sort_values([k \in 1..Len(kept) |->
                          Recommendation(kept[k], plans[kept[k]], savings[kept[k]].value)])}

\* The loop over the catalog and the final sort, given each plan's outcome of
\* calculate_plan_savings: the first plan whose evaluation raised, or whose
\* report lacks a key the row needs, ends the call.
RankingOf(plans, savings) ==
    LET failed == {i \in 1..Len(plans) : savings[i].status # "ok"}
        short == {i \in 1..Len(plans) :
                     savings[i].status = "ok"
                     /\ "bill_savings_percentage" \notin DOMAIN savings[i].value}
        first(S) == CHOOSE i \in S : \A j \in S : i <= j
    IN IF failed # {} /\ (short = {} \/ first(failed) < first(short))
       THEN {[status |-> savings[first(failed)].status, message |-> "plan"]}
       ELSE IF short # {}
       THEN {[status |-> "KeyError", message |-> "bill_savings_percentage"]}
       ELSE IF Len(plans) = 0
       THEN {[status |-> "KeyError", message |-> "monthly_savings_kwh"]}
       ELSE {[status |-> "ok", value |-> sorted] : sorted \in
               sort_values([i \in 1..Len(plans) |->
                               Recommendation(i, plans[i], savings[i].value)])}

\* Variant: the check of active_months is missing.
generate_recommendations_unguarded(frame, plans_frame, months) ==
    IF frame = None \/ plans_frame = None
    THEN {[status |-> "ValueError", message |-> "Data not loaded"]}
    ELSE RankingOf(plans_frame.rows,
                   [i \in 1..Len(plans_frame.rows) |->
                       calculate_plan_savings(plans_frame.rows[i], frame, months)])

\* The set of outcomes of generate_recommendations in the given object state.
generate_recommendations(frame, plans_frame, months) ==
    IF frame = None \/ plans_frame = None
    THEN {[status |-> "ValueError", message |-> "Data not loaded"]}
    ELSE IF Len(months) = 0
    THEN {[status |-> "ValueError", message |-> "No active months identified"]}
    ELSE RankingOf(plans_frame.rows,
                   [i \in 1..Len(plans_frame.rows) |->
                       calculate_plan_savings(plans_frame.rows[i], frame, months)])

-----------------------------------------------------------------------------
(* PlanRecommender.get_hourly_consumption_data *)

HourlyWindow == 6     \* sorted(...)[:6]
HoursPerDay == 24     \* range(24)

\* str(n) for n >= 0
RECURSIVE Decimal(_)
Decimal(n) ==
    IF n < 10 THEN <<DigitChars[n + 1]>>
    ELSE Decimal(n \div 10) \o <<DigitChars[(n % 10) + 1]>>

\* f"{year}-{month:02d}"
month_name(ym) ==
    Decimal(ym[1]) \o <<"-">> \o (IF ym[2] < 10 THEN <<"0">> ELSE <<>>) \o Decimal(ym[2])

\* The key 'average'
Average == <<"a","v","e","r","a","g","e">>

\* {}
EmptyProfile == [key \in {} |-> <<>>]

\* Variant: the slice is taken from the ascending order.
sorted_active_months_oldest(months) ==
    LET asc == SortedMonths(Range(months))
    IN SubSeq(asc, 1, IF Len(asc) < HourlyWindow THEN Len(asc) ELSE HourlyWindow)

\* sorted(self.active_months, reverse=True)[:6]
sorted_active_months(months) ==
    LET asc == SortedMonths(Range(months))
        n == Len(asc)
    IN [k \in 1..(IF n < HourlyWindow THEN n ELSE HourlyWindow) |-> asc[n + 1 - k]]

\* Positions of the rows of month ym read during the given hour.
HourIdx(rows, ym, hour) ==
    SelectSeq([i \in 1..Len(rows) |-> i],
              LAMBDA i : /\ YearMonth(rows[i].timestamp) = ym
                         /\ rows[i].timestamp.hour = hour)

\* Variant: the group's total instead of its mean.
hourly_avg_total(rows, idxs) == FInt(KwhOf(rows, idxs))

\* groupby('hour')['kwh_consumption'].mean(), for one non-empty group
hourly_avg(rows, idxs) == Frac(KwhOf(rows, idxs), Len(idxs))

\* round(hourly_avg.get(hour, 0), 3)
HourValue(rows, idxs) ==
    IF Len(idxs) = 0 THEN FZero ELSE Round(hourly_avg(rows, idxs), 3)

\* The list stored under a month's key; position h holds hour h - 1.
hourly_consumption(rows, ym) ==
    [h \in 1..HoursPerDay |-> HourValue(rows, HourIdx(rows, ym, h - 1))]

RECURSIVE FracSum(_)
FracSum(s) == IF s = <<>> THEN FZero ELSE FAdd(Head(s), FracSum(Tail(s)))

\* Variant: a month counts at an hour only if its value there is not zero.
all_hours_data_nonzero(entries) ==
    [h \in 1..HoursPerDay |->
        LET hour_values == SelectSeq([k \in 1..Len(entries) |-> entries[k][h]],
                                     LAMBDA v : v # FZero)
        IN IF hour_values = <<>> THEN FZero
           ELSE Round(FDiv(FracSum(hour_values), FInt(Len(hour_values))), 3)]

\* The list stored under 'average', from the lists already stored.
all_hours_data(entries) ==
    [h \in 1..HoursPerDay |->
        LET hour_values == [k \in 1..Len(entries) |-> entries[k][h]]
        IN IF hour_values = <<>> THEN FZero
           ELSE Round(FDiv(FracSum(hour_values), FInt(Len(hour_values))), 3)]

\* hourly_data for the selected months that have rows (kept) and their lists.
ProfileOf(kept, entries) ==
    [key \in {month_name(kept[k]) : k \in 1..Len(kept)} \cup {Average} |->
        IF key = Average THEN all_hours_data(entries)
        ELSE entries[CHOOSE k \in 1..Len(kept) : month_name(kept[k]) = key]]

\* The method once the frame is known to carry 'year_month'.
HourlyOf(rows, kept) ==
    IF Len(kept) = 0
    THEN [status |-> "ok", value |-> EmptyProfile]
    ELSE [status |-> "ok",
          value |-> ProfileOf(kept, [k \in 1..Len(kept) |->
                                        hourly_consumption(rows, kept[k])])]

get_hourly_consumption_data(frame, months) ==
    IF frame = None THEN [status |-> "ok", value |-> EmptyProfile]
    ELSE IF ~frame.has_year_month THEN [status |-> "KeyError"]
    ELSE HourlyOf(frame.rows,
                  SelectSeq(sorted_active_months(months),
                            LAMBDA ym : ym \in MonthsOf(frame.rows)))

-----------------------------------------------------------------------------
(* Inputs *)

MaxReadings == 2        \* rows of a consumption file (Spec)
MaxPlans == 2           \* rows of a plan catalog (Spec)
MaxMonthReadings == 4   \* rows of a consumption file (SpecMonths)
MaxBatchPlans == 2      \* rows of a plan catalog (SpecBatch)
MaxHourlyReadings == 3  \* rows of a consumption file (SpecHourly)
MaxProfileMonths == 7   \* months of a one-reading-a-month file (SpecHourly)
MaxEvaluations == 2     \* concurrent calls of calculate_plan_savings (SpecConcurrent)
MaxRankPlans == 2       \* rows of a plan catalog (SpecRounding)

UpperCharOf(c) == IF c \in DOMAIN UpperOf THEN UpperOf[c] ELSE c

\* The three spellings of a day name that occur in catalogs.
Casings == {"lower", "Title", "UPPER"}
Spell(name, casing) ==
    IF casing = "lower" THEN name
    ELSE IF casing = "Title" THEN <<UpperCharOf(name[1])>> \o Tail(name)
    ELSE [i \in 1..Len(name) |-> UpperCharOf(name[i])]

DayStr(i, casing) == Spell(day_mapping[i + 1], casing)
DayRangeStr(i, j, casing) == DayStr(i, casing) \o <<"-">> \o DayStr(j, casing)

TwoDigits(n) == <<DigitChars[(n \div 10) + 1], DigitChars[(n % 10) + 1]>>
TimeStr(t) == TwoDigits(t[1]) \o <<":">> \o TwoDigits(t[2])
TimeRangeStr(s, e) == TimeStr(s) \o <<"-">> \o TimeStr(e)

Stamp(y, mo, d, h, mi) == [year |-> y, month |-> mo, day |-> d, hour |-> h, minute |-> mi]
Reading(ts, kwh) == [timestamp |-> ts, kwh_consumption |-> kwh]

StampLe(a, b) ==
    LET ka == <<a.year, a.month, a.day, a.hour, a.minute>>
        kb == <<b.year, b.month, b.day, b.hour, b.minute>>
    IN \/ ka = kb
       \/ \E i \in 1..5 : ka[i] < kb[i] /\ \A j \in 1..(i - 1) : ka[j] = kb[j]

\* A cleaned consumption file is chronologically ordered.
Chronological(rows) ==
    \A i \in 1..(Len(rows) - 1) : StampLe(rows[i].timestamp, rows[i + 1].timestamp)

\* consumption_file is a chronological file of at most n rows, each stamped
\* with one of stamps (listed in chronological order) and carrying one of kwhs.
FileOver(stamps, kwhs, n) ==
    \E len \in 0..n :
        \E pos \in [1..len -> 1..Len(stamps)] :
            /\ \A i \in 1..(len - 1) : pos[i] <= pos[i + 1]
            /\ \E kwh \in [1..len -> kwhs] :
                  consumption_file = [i \in 1..len |-> Reading(stamps[pos[i]], kwh[i])]

\* plans_file is a catalog of at most n rows drawn from plans.
CatalogOver(plans, n) ==
    \E len \in 0..n : plans_file \in [1..len -> plans]

Plan(name, days, hours, pct) ==
    [plan_name |-> name, week_days_applicable |-> days, hours_applicable |-> hours,
     price_percentage_off |-> pct]

\* Spec: two months, two mornings and a late evening.
\* 2024-01-01 and 2024-02-05 are Mondays, 2024-02-02 is a Friday.
SpecStamps ==
    <<Stamp(2024, 1, 1, 8, 0), Stamp(2024, 2, 2, 8, 0), Stamp(2024, 2, 5, 23, 30)>>
SpecKwh == {1, 6}
SpecPlans ==
    {Plan("day", DayRangeStr(6, 3, "Title"), TimeRangeStr(<<7, 0>>, <<17, 0>>), 10),
     Plan("night", DayRangeStr(0, 4, "lower"), TimeRangeStr(<<23, 0>>, <<7, 0>>), 20)}
SpecThresholds == {Frac(20, 100), Frac(1, 2)}

\* SpecWindow: one reading, one plan, both on the boundaries of the windows.
BoundaryTimes ==
    {<<6, 59>>, <<7, 0>>, <<9, 0>>, <<9, 30>>, <<16, 59>>, <<17, 0>>, <<22, 59>>, <<23, 0>>}
WindowStamps ==
    {Stamp(2024, 1, d, t[1], t[2]) : d \in {1, 6}, t \in BoundaryTimes \cup {<<10, 0>>, <<0, 0>>}}
WindowPlans ==
    {Plan("w", days, TimeRangeStr(s, e), 10) :
        days \in {DayRangeStr(6, 3, "Title"), DayRangeStr(4, 6, "Title")},
        s \in BoundaryTimes, e \in BoundaryTimes}

\* SpecMonths: four months; a total of 20 only arises as a sum, and a file is
\* either all zero or has no zero reading.
MonthStamps == [mo \in 1..4 |-> Stamp(2024, mo, 1, 12, 0)]
MonthKwh == {5, 15, 30, 100}
MonthThresholds == {Frac(20, 100)}

\* SpecActive: files over four months with readings that may be zero or
\* negative, and thresholds inside and outside [0, 1].
MaxActiveReadings == 3
ActiveKwh == {-5, 0, 5}
ActiveThresholds == {FZero, Frac(20, 100), FInt(1), Frac(3, 2)}

\* SpecDiscount: one plan at a discount from 0 to above 100 percent, over
\* readings that may be zero or negative.
MaxDiscountReadings == 2
DiscountKwh == {-1, 0, 1, 6}
DiscountPlans ==
    {Plan("day", DayRangeStr(6, 3, "Title"), TimeRangeStr(<<7, 0>>, <<17, 0>>), pct) :
        pct \in {0, 30, 100, 150}}

\* SpecBatch: an empty file, one month and two months of readings; catalogs
\* that may hold a plan with an unknown day name or with hours lacking colons.
BatchFiles ==
    {<<>>,
     <<Reading(Stamp(2024, 1, 1, 8, 0), 6)>>,
     <<Reading(Stamp(2024, 1, 1, 8, 0), 6), Reading(Stamp(2024, 2, 5, 23, 30), 6)>>}
BadDaysPlan ==
    Plan("bad_days", <<"F","u","n","d","a","y">> \o <<"-">> \o DayStr(0, "Title"),
         TimeRangeStr(<<7, 0>>, <<17, 0>>), 30)
BadHoursPlan ==
    Plan("bad_hours", DayRangeStr(6, 3, "Title"),
         <<"0","7","0","0","-","1","7","0","0">>, 30)
BatchPlans == SpecPlans \cup {BadDaysPlan, BadHoursPlan}

\* SpecHourly: either a few readings at 08:00 or 23:00 in three months, or at
\* most one reading a month, at 08:00, from 2023-08 onwards (kWh 0: no reading).
HourlyStamps ==
    <<Stamp(2024, 1, 1, 8, 0), Stamp(2024, 1, 1, 23, 0), Stamp(2024, 2, 1, 8, 0),
      Stamp(2024, 2, 1, 23, 0), Stamp(2024, 3, 1, 8, 0), Stamp(2024, 3, 1, 23, 0)>>
HourlyKwh == {1, 6}
RecentStamp(m) == Stamp(2023 + ((m + 6) \div 12), ((m + 6) % 12) + 1, 1, 8, 0)
RecentFile(n) ==
    \E kwh \in [1..n -> {0, 1, 6}] :
        consumption_file = SelectSeq([m \in 1..n |-> Reading(RecentStamp(m), kwh[m])],
                                     LAMBDA r : r.kwh_consumption # 0)

\* SpecConcurrent: files whose rows differ in month, weekday and time of day;
\* the catalog of Spec with a plan whose hours are malformed.
ConcurrentFiles ==
    {<<>>,
     <<Reading(Stamp(2024, 1, 1, 8, 0), 6), Reading(Stamp(2024, 2, 5, 23, 30), 6)>>,
     <<Reading(Stamp(2024, 1, 1, 8, 0), 1), Reading(Stamp(2024, 2, 2, 8, 0), 6),
       Reading(Stamp(2024, 2, 5, 23, 30), 6)>>}
ConcurrentCatalog ==
    <<Plan("day", DayRangeStr(6, 3, "Title"), TimeRangeStr(<<7, 0>>, <<17, 0>>), 10),
      Plan("night", DayRangeStr(0, 4, "lower"), TimeRangeStr(<<23, 0>>, <<7, 0>>), 20),
      BadHoursPlan>>

\* SpecRounding: figures with more decimals than are displayed. Plans differ in
\* their discount only (Sunday-Thursday 07:00-17:00). RoundingFiles holds: one
\* eligible kWh over three active months (2024-02-02 and 2024-03-01 are
\* Fridays); 4 kWh in three readings at 08:00 in January and one reading at
\* 23:00 in February; a single reading of 3 kWh.
RoundingPlans ==
    {Plan("p09", DayRangeStr(6, 3, "Title"), TimeRangeStr(<<7, 0>>, <<17, 0>>), 9),
     Plan("p10", DayRangeStr(6, 3, "Title"), TimeRangeStr(<<7, 0>>, <<17, 0>>), 10),
     Plan("p11", DayRangeStr(6, 3, "Title"), TimeRangeStr(<<7, 0>>, <<17, 0>>), 11),
     Plan("p12", DayRangeStr(6, 3, "Title"), TimeRangeStr(<<7, 0>>, <<17, 0>>), 12)}
RoundingFiles ==
    {<<Reading(Stamp(2024, 1, 1, 8, 0), 1), Reading(Stamp(2024, 2, 2, 8, 0), 1),
       Reading(Stamp(2024, 3, 1, 8, 0), 1)>>,
     <<Reading(Stamp(2024, 1, 1, 8, 0), 1), Reading(Stamp(2024, 1, 1, 8, 0), 1),
       Reading(Stamp(2024, 1, 1, 8, 0), 2), Reading(Stamp(2024, 2, 1, 23, 0), 1)>>,
     <<Reading(Stamp(2024, 1, 1, 8, 0), 3)>>}

\* SpecParse: the strings handed to the two parsers.
DayRangeInputs ==
    {DayRangeStr(i, j, c) : i \in 0..6, j \in 0..6, c \in Casings}
    \cup {DayStr(i, c) : i \in 0..6, c \in Casings}
    \cup {<<"f","u","n","d","a","y">>, Monday \o <<"-">>, Monday \o <<"-">> \o <<"x">>,
          DayRangeStr(0, 1, "lower") \o <<"-">> \o Sunday, <<>>}
TimeRangeInputs ==
    {TimeRangeStr(s, e) : s \in BoundaryTimes, e \in BoundaryTimes}
    \cup {<<"7",":","0","0","-","1","7",":","0","0">>,
          <<"2","5",":","0","0","-","0","7",":","6","1">>,
          <<"0","7","0","0","-","1","7","0","0">>,
          <<"0","7",":","0","0">>,
          <<"a","b",":","0","0","-","1","7",":","0","0">>,
          <<"0","7",":","0","0","-","1","7",":","0","0","-","1","8",":","0","0">>,
          <<"0","7",":","0","0",":","0","0","-","1","7",":","0","0">>,
          <<>>}

-----------------------------------------------------------------------------
(* consumption_parser.parse_consumption_file *)

\* The two Hebrew header words the parser looks for (the date column and the
\* consumption column), each written as one character of the line.
DateWord == "date_column_word"
ConsumptionWord == "consumption_column_word"
Quote == "\""

\* for i, line in enumerate(lines): the first line holding both words, as a
\* 0-based index; -1 when there is none.
HeaderIndex(lines) ==
    LET hits == {i \in 1..Len(lines) : /\ Contains(lines[i], DateWord)
                                       /\ Contains(lines[i], ConsumptionWord)}
    IN IF hits = {} THEN -1
       ELSE (CHOOSE i \in hits : \A j \in hits : i <= j) - 1

\* The manual split of a line on the commas outside quotes; the quotes are
\* left out and every part is stripped.
RECURSIVE PartsFrom(_, _, _, _)
PartsFrom(line, i, current_part, in_quotes) ==
    IF i > Len(line) THEN <<Strip(current_part)>>
    ELSE IF line[i] = Quote THEN PartsFrom(line, i + 1, current_part, ~in_quotes)
    ELSE IF line[i] = "," /\ ~in_quotes
    THEN <<Strip(current_part)>> \o PartsFrom(line, i + 1, <<>>, in_quotes)
    ELSE PartsFrom(line, i + 1, Append(current_part, line[i]), in_quotes)

RECURSIVE TenTo(_)
TenTo(k) == IF k = 0 THEN 1 ELSE 10 * TenTo(k - 1)

\* float(s) on decimal literals: blanks, one sign, digits with at most one
\* point and a digit on one side of it; anything else raises ValueError.
PyFloat(s) ==
    LET t == Strip(s)
        signed == t # <<>> /\ Head(t) \in {"+", "-"}
        body == IF signed THEN Tail(t) ELSE t
        pieces == Split(body, ".")
        whole == pieces[1]
        frac == IF Len(pieces) = 2 THEN pieces[2] ELSE <<>>
        digits == whole \o frac
        magnitude == Frac(DigitsVal(digits), TenTo(Len(frac)))
    IN IF /\ Len(pieces) <= 2
          /\ digits # <<>>
          /\ \A i \in 1..Len(digits) : IsDigit(digits[i])
       THEN [status |-> "ok",
             value |-> IF signed /\ Head(t) = "-" THEN FSub(FZero, magnitude)
                       ELSE magnitude]
       ELSE [status |-> "ValueError"]

\* consumption = float(consumption_str) if consumption_str else 0.0, and 0.0
\* when float raises.
ConsumptionOf(consumption_str) ==
    IF consumption_str = <<>> THEN FZero
    ELSE IF PyFloat(consumption_str).status = "ok" THEN PyFloat(consumption_str).value
    ELSE FZero

IsLeap(year) == year % 4 = 0 /\ (year % 100 # 0 \/ year % 400 = 0)

DaysInMonth(year, month) ==
    IF month = 2 THEN (IF IsLeap(year) THEN 29 ELSE 28)
    ELSE IF month \in {4, 6, 9, 11} THEN 30 ELSE 31

\* datetime(year=int(year), month=int(month), day=int(day), hour=int(hour),
\* minute=int(minute)): ValueError from any int() or from a field out of range.
DateTimeOf(day, month, year, hour, minute) ==
    LET fields == <<PyInt(year), PyInt(month), PyInt(day), PyInt(hour), PyInt(minute)>>
    IN IF \E i \in 1..5 : fields[i].status # "ok" THEN [status |-> "ValueError"]
       ELSE LET y == fields[1].value
                mo == fields[2].value
                d == fields[3].value
                h == fields[4].value
                mi == fields[5].value
            IN IF /\ y \in 1..9999
                  /\ mo \in 1..12
                  /\ d >= 1 /\ d <= DaysInMonth(y, mo)
                  /\ h \in 0..23
                  /\ mi \in 0..59
               THEN [status |-> "ok", value |-> Stamp(y, mo, d, h, mi)]
               ELSE [status |-> "ValueError"]

\* One pass of the loop over data_lines: what the line appends to
\* consumption_data, nothing or one reading.
RowsOfLine(raw_line) ==
    LET line == Strip(raw_line)
        parts == PartsFrom(line, 1, <<>>, FALSE)
        date_str == parts[1]
        time_str == parts[2]
        date_parts == Split(date_str, "/")
        time_parts == Split(time_str, ":")
        dt == DateTimeOf(date_parts[1], date_parts[2], date_parts[3],
                         time_parts[1], time_parts[2])
    IN IF line = <<>> THEN <<>>
       ELSE IF Len(parts) < 3 THEN <<>>
       ELSE IF date_str = <<>> \/ time_str = <<>> THEN <<>>
       ELSE IF Len(date_parts) # 3 \/ Len(time_parts) # 2 THEN <<>>
       ELSE IF dt.status # "ok" THEN <<>>
       ELSE <<Reading(dt.value, ConsumptionOf(parts[3]))>>

RECURSIVE RowsOfLines(_, _)
RowsOfLines(lines, from) ==
    IF from > Len(lines) THEN <<>>
    ELSE RowsOfLine(lines[from]) \o RowsOfLines(lines, from + 1)

\* Variant: the readings are written in the order of the export.
sort_by_timestamp_unsorted(rows) == {rows}

\* df.sort_values('timestamp_dt'): every arrangement of the rows that is
\* non-decreasing in the timestamp (the default sort kind is not stable).
sort_by_timestamp(rows) ==
    LET n == Len(rows)
        perms == {f \in [1..n -> 1..n] : Injective(f)}
    IN {[k \in 1..n |-> rows[f[k]]] : f \in
          {g \in perms : \A k \in 1..(n - 1) :
               StampLe(rows[g[k]].timestamp, rows[g[k + 1]].timestamp)}}

\* The outcomes of parse_consumption_file(lines): the rows written to the
\* cleaned file, or what it raises.  data_start_line is two lines past the
\* header; a DataFrame built from no reading has no 'timestamp' column.
parse_consumption_file(lines) ==
    LET data_start_line == HeaderIndex(lines) + 2
        readings == RowsOfLines(lines, data_start_line + 1)
    IN IF HeaderIndex(lines) = -1 THEN {[status |-> "ValueError"]}
       ELSE IF readings = <<>> THEN {[status |-> "KeyError"]}
       ELSE {[status |-> "ok", value |-> rows] : rows \in sort_by_timestamp(readings)}

-----------------------------------------------------------------------------
(* Utility exports handed to the parser *)

MaxExportLines == 3

FourDigits(n) == TwoDigits(n \div 100) \o TwoDigits(n % 100)
DateText(d, mo, y) == TwoDigits(d) \o <<"/">> \o TwoDigits(mo) \o <<"/">> \o FourDigits(y)
IsoDateText(d, mo, y) == FourDigits(y) \o <<"-">> \o TwoDigits(mo) \o <<"-">> \o TwoDigits(d)

\* A row of the export: the text of its three columns, how it is laid out, and
\* the reading it states when its date and time are well formed.
ExportRow(date, time, kwh, layout, well_formed, reading) ==
    [date |-> date, time |-> time, kwh |-> kwh, layout |-> layout,
     well_formed |-> well_formed, reading |-> reading]

NoReading == Reading(Stamp(0, 0, 0, 0, 0), FZero)

GoodRow(d, mo, y, t, kwh, value, layout) ==
    ExportRow(DateText(d, mo, y), TimeStr(t), kwh, layout, TRUE,
              Reading(Stamp(y, mo, d, t[1], t[2]), value))

BadDateRow(date) == ExportRow(date, TimeStr(<<8, 0>>), <<"3">>, "plain", FALSE, NoReading)
BadTimeRow(time) == ExportRow(DateText(1, 1, 2024), time, <<"3">>, "plain", FALSE, NoReading)

ExportRows ==
    { GoodRow(1, 1, 2024, <<8, 0>>, <<"3">>, FInt(3), "plain"),
      GoodRow(5, 2, 2024, <<23, 30>>, <<"1", ".", "5">>, Frac(3, 2), "plain"),
      GoodRow(29, 2, 2024, <<8, 0>>, <<>>, FZero, "quoted"),
      GoodRow(5, 2, 2024, <<8, 0>>, <<"x">>, FZero, "spaced"),
      BadDateRow(<<>>),
      BadDateRow(DateText(29, 2, 2023)),
      BadDateRow(IsoDateText(1, 1, 2024)),
      BadDateRow(<<"a", "b">> \o Tail(Tail(DateText(1, 1, 2024)))),
      BadTimeRow(<<>>),
      BadTimeRow(TimeStr(<<24, 0>>)),
      BadTimeRow(TimeStr(<<8, 0>>) \o <<":">> \o TwoDigits(0)),
      ExportRow(DateText(1, 1, 2024), TimeStr(<<8, 0>>), <<>>, "two_columns",
                FALSE, NoReading) }

\* The line of the export that states a row.
DataLine(row) ==
    IF row.layout = "quoted"
    THEN <<Quote>> \o row.date \o <<Quote, ",", Quote>> \o row.time
         \o <<Quote, ",", Quote>> \o row.kwh \o <<Quote>>
    ELSE IF row.layout = "spaced"
    THEN <<" ">> \o row.date \o <<" ", ",", " ">> \o row.time \o <<",">> \o row.kwh \o <<" ">>
    ELSE IF row.layout = "two_columns" THEN row.date \o <<",">> \o row.time
    ELSE row.date \o <<",">> \o row.time \o <<",">> \o row.kwh

\* The row a data line states.
RowOfLine == [line \in {DataLine(r) : r \in ExportRows} |->
                 CHOOSE r \in ExportRows : DataLine(r) = line]

BlankLine == <<>>
HeaderLine == <<DateWord, ",", "t", ",", ConsumptionWord>>
CustomerLine == <<"n", "a", "m", "e", ",", DateWord>>

ExportLines == {DataLine(r) : r \in ExportRows} \cup {BlankLine}

\* Exports of the utility's layout (a customer line, the header, an empty line,
\* the rows), and files without the header.
ExportFiles ==
    LET bodies == UNION {[1..n -> ExportLines] : n \in 0..MaxExportLines}
    IN {<<CustomerLine, HeaderLine, BlankLine>> \o b : b \in bodies}
       \cup {<<CustomerLine>> \o b : b \in bodies}

-----------------------------------------------------------------------------
(* State machine *)

Call(op, arg, out) == [op |-> op, arg |-> arg, out |-> out]

\* PlanRecommender.__init__
InitObject ==
    /\ consumption_data = None
    /\ plans_data = None
    /\ active_months = <<>>
    /\ result = Call("__init__", <<>>, [status |-> "ok"])
    /\ evaluations = <<>>

\* load_data: both frames are replaced; a fresh frame has no 'year_month' column.
LoadData ==
    /\ consumption_data' = Frame(consumption_file, FALSE)
    /\ plans_data' = Frame(plans_file, FALSE)
    /\ result' = Call("load_data", <<>>, [status |-> "ok"])
    /\ UNCHANGED <<raw_file, evaluations, consumption_file, plans_file, active_months>>

IdentifyActiveMonths(thresholds) ==
    \E t \in thresholds :
        IF consumption_data = None
        THEN /\ result' = Call("identify_active_months", t, [status |-> "TypeError"])
             /\ UNCHANGED <<raw_file, evaluations, consumption_file, plans_file, consumption_data, plans_data,
                            active_months>>
        ELSE /\ consumption_data' = Frame(consumption_data.rows, TRUE)
             /\ active_months' = ActiveMonthsOf(consumption_data.rows, t)
             /\ result' = Call("identify_active_months", t,
                               [status |-> "ok",
                                value |-> ActiveMonthsOf(consumption_data.rows, t)])
             /\ UNCHANGED <<raw_file, evaluations, consumption_file, plans_file, plans_data>>

\* calculate_plan_savings(plan) for a row of the loaded catalog
CalculatePlanSavings ==
    /\ plans_data # None
    /\ \E i \in 1..Len(plans_data.rows) :
          /\ result' = Call("calculate_plan_savings", plans_data.rows[i],
                            calculate_plan_savings(plans_data.rows[i], consumption_data,
                                                   active_months))
          /\ consumption_data' = consumption_data_after(plans_data.rows[i],
                                                        consumption_data, active_months)
    /\ UNCHANGED <<raw_file, evaluations, consumption_file, plans_file, plans_data, active_months>>

GenerateRecommendations ==
    /\ \E out \in generate_recommendations(consumption_data, plans_data,
                                           active_months) :
          result' = Call("generate_recommendations", <<>>, out)
    /\ UNCHANGED <<raw_file, evaluations, consumption_file, plans_file, consumption_data, plans_data,
                   active_months>>

ParseDayRange ==
    /\ \E s \in DayRangeInputs : result' = Call("parse_day_range", s, parse_day_range(s))
    /\ UNCHANGED <<raw_file, evaluations, consumption_file, plans_file, consumption_data, plans_data,
                   active_months>>

ParseTimeRange ==
    /\ \E s \in TimeRangeInputs : result' = Call("parse_time_range", s, parse_time_range(s))
    /\ UNCHANGED <<raw_file, evaluations, consumption_file, plans_file, consumption_data, plans_data,
                   active_months>>

GetHourlyConsumptionData ==
    /\ result' = Call("get_hourly_consumption_data", <<>>,
                      get_hourly_consumption_data(consumption_data, active_months))
    /\ UNCHANGED <<raw_file, evaluations, consumption_file, plans_file, consumption_data, plans_data,
                   active_months>>

\* calculate_plan_savings on a thread of its own, statement by statement.
\* Lines 180-182: the plan's schedule is parsed.
StartEvaluation ==
    /\ plans_data # None
    /\ Len(evaluations) < MaxEvaluations
    /\ \E i \in 1..Len(plans_data.rows) :
          LET plan == plans_data.rows[i]
              days == parse_day_range(plan.week_days_applicable)
              times == parse_time_range(plan.hours_applicable)
          IN evaluations' = Append(evaluations,
                 IF days.status # "ok"
                 THEN [pc |-> "done", plan |-> plan, out |-> [status |-> days.status]]
                 ELSE IF times.status # "ok"
                 THEN [pc |-> "done", plan |-> plan, out |-> [status |-> times.status]]
                 ELSE [pc |-> "parsed", plan |-> plan, applicable_days |-> days.value,
                       times |-> times.value])
    /\ UNCHANGED <<raw_file, consumption_file, plans_file, consumption_data, plans_data,
                   active_months, result>>

\* Lines 185-197: active_consumption, a copy of the rows of active months.
FilterActive(k) ==
    LET e == evaluations[k]
        Done(out) == [pc |-> "done", plan |-> e.plan, out |-> out]
    IN /\ e.pc = "parsed"
       /\ evaluations' = [evaluations EXCEPT ![k] =
             IF consumption_data = None THEN Done([status |-> "TypeError"])
             ELSE IF ~consumption_data.has_year_month THEN Done([status |-> "KeyError"])
             ELSE IF Len(ActiveIdx(consumption_data.rows, active_months)) = 0
             THEN Done([status |-> "ok", value |-> EmptyFigures])
             ELSE [e EXCEPT !.pc = "filtered"] @@
                  [active_consumption |->
                      [j \in 1..Len(ActiveIdx(consumption_data.rows, active_months)) |->
                          consumption_data.rows[
                              ActiveIdx(consumption_data.rows, active_months)[j]]]]]
       /\ UNCHANGED <<raw_file, consumption_file, plans_file, consumption_data, plans_data,
                      active_months, result>>

\* Lines 199-229: the mask over active_consumption and the two sums.
SumEligible(k) ==
    LET e == evaluations[k]
        Eligible(r) == eligible_mask(r, e.applicable_days, e.times)
    IN /\ e.pc = "filtered"
       /\ evaluations' = [evaluations EXCEPT ![k] =
             [e EXCEPT !.pc = "summed"] @@
             [eligible |-> SelectIdx(e.active_consumption, Eligible)]]
       /\ consumption_data' = consumption_data_after(e.plan, consumption_data,
                                                     active_months)
       /\ UNCHANGED <<raw_file, consumption_file, plans_file, plans_data, active_months, result>>

\* Lines 231-256: the figures, with len(self.active_months) read at line 238.
ReturnReport(k) ==
    LET e == evaluations[k]
    IN /\ e.pc = "summed"
       /\ evaluations' = [evaluations EXCEPT ![k] =
             [pc |-> "done", plan |-> e.plan,
              out |-> [status |-> "ok",
                       value |-> SavingsFigures(
                           KwhOf(e.active_consumption, e.eligible),
                           KwhOf(e.active_consumption,
                                 [j \in 1..Len(e.active_consumption) |-> j]),
                           Frac(e.plan.price_percentage_off, 100),
                           num_months(active_months, e.active_consumption,
                                      e.eligible))]]]
       /\ UNCHANGED <<raw_file, consumption_file, plans_file, consumption_data, plans_data,
                      active_months, result>>

\* parse_consumption_file on the export: the call and what it wrote or raised.
ParseConsumptionFile ==
    /\ \E out \in parse_consumption_file(raw_file) :
           result' = Call("parse_consumption_file", <<>>, out)
    /\ UNCHANGED <<raw_file, evaluations, consumption_file, plans_file, consumption_data,
                   plans_data, active_months>>

\* The recommender over small files: loading, selection, evaluation, ranking.
Init ==
    /\ FileOver(SpecStamps, SpecKwh, MaxReadings)
    /\ CatalogOver(SpecPlans, MaxPlans)
    /\ raw_file = <<>>
    /\ InitObject

Next ==
    \/ LoadData
    \/ IdentifyActiveMonths(SpecThresholds)
    \/ CalculatePlanSavings
    \/ GenerateRecommendations

Spec == Init /\ [][Next]_vars

\* One plan evaluated against one reading, on the window boundaries.
InitWindow ==
    /\ consumption_file \in {<<Reading(ts, 3)>> : ts \in WindowStamps}
    /\ plans_file \in {<<p>> : p \in WindowPlans}
    /\ raw_file = <<>>
    /\ InitObject

NextWindow ==
    \/ LoadData
    \/ IdentifyActiveMonths({Frac(20, 100)})
    \/ CalculatePlanSavings

SpecWindow == InitWindow /\ [][NextWindow]_vars

\* Active-month selection over four months.
InitMonths ==
    /\ \/ FileOver(MonthStamps, MonthKwh, MaxMonthReadings)
       \/ FileOver(MonthStamps, {0}, MaxMonthReadings)
    /\ plans_file = <<>>
    /\ raw_file = <<>>
    /\ InitObject

NextMonths ==
    \/ LoadData
    \/ IdentifyActiveMonths(MonthThresholds)

SpecMonths == InitMonths /\ [][NextMonths]_vars

\* The two schedule parsers applied to catalog strings.
InitParse ==
    /\ consumption_file = <<>>
    /\ plans_file = <<>>
    /\ raw_file = <<>>
    /\ InitObject

NextParse ==
    \/ ParseDayRange
    \/ ParseTimeRange

SpecParse == InitParse /\ [][NextParse]_vars

\* Ranking catalogs that may hold an unparsable plan.
InitBatch ==
    /\ consumption_file \in BatchFiles
    /\ CatalogOver(BatchPlans, MaxBatchPlans)
    /\ raw_file = <<>>
    /\ InitObject

NextBatch ==
    \/ LoadData
    \/ IdentifyActiveMonths({Frac(20, 100)})
    \/ GenerateRecommendations

SpecBatch == InitBatch /\ [][NextBatch]_vars

\* The hourly profile of the active months.
InitHourly ==
    /\ \/ FileOver(HourlyStamps, HourlyKwh, MaxHourlyReadings)
       \/ RecentFile(MaxProfileMonths)
    /\ plans_file = <<>>
    /\ raw_file = <<>>
    /\ InitObject

NextHourly ==
    \/ LoadData
    \/ IdentifyActiveMonths({Frac(20, 100)})
    \/ GetHourlyConsumptionData

SpecHourly == InitHourly /\ [][NextHourly]_vars

\* Plans evaluated concurrently once the data is set up: load_data and
\* identify_active_months run before the first evaluation starts.
InitConcurrent ==
    /\ consumption_file \in ConcurrentFiles
    /\ plans_file = ConcurrentCatalog
    /\ raw_file = <<>>
    /\ InitObject

NextConcurrent ==
    \/ Len(evaluations) = 0 /\ LoadData
    \/ Len(evaluations) = 0 /\ IdentifyActiveMonths({Frac(20, 100)})
    \/ StartEvaluation
    \/ \E k \in 1..Len(evaluations) : FilterActive(k)
    \/ \E k \in 1..Len(evaluations) : SumEligible(k)
    \/ \E k \in 1..Len(evaluations) : ReturnReport(k)

SpecConcurrent == InitConcurrent /\ [][NextConcurrent]_vars

\* Evaluation, ranking and the hourly profile over figures that need rounding.
InitRounding ==
    /\ consumption_file \in RoundingFiles
    /\ CatalogOver(RoundingPlans, MaxRankPlans)
    /\ raw_file = <<>>
    /\ InitObject

NextRounding ==
    \/ LoadData
    \/ IdentifyActiveMonths({Frac(20, 100)})
    \/ CalculatePlanSavings
    \/ GenerateRecommendations
    \/ GetHourlyConsumptionData

SpecRounding == InitRounding /\ [][NextRounding]_vars

\* The parser over small exports.
InitIngest ==
    /\ raw_file \in ExportFiles
    /\ consumption_file = <<>>
    /\ plans_file = <<>>
    /\ InitObject

NextIngest == ParseConsumptionFile

SpecIngest == InitIngest /\ [][NextIngest]_vars

\* Selection over files of a few months, at thresholds from 0 to above 1.
InitActive ==
    /\ FileOver(MonthStamps, ActiveKwh, MaxActiveReadings)
    /\ plans_file = <<>>
    /\ raw_file = <<>>
    /\ InitObject

NextActive ==
    \/ LoadData
    \/ IdentifyActiveMonths(ActiveThresholds)

SpecActive == InitActive /\ [][NextActive]_vars

\* One plan evaluated at discounts from 0 to above 100 percent.
InitDiscount ==
    /\ FileOver(SpecStamps, DiscountKwh, MaxDiscountReadings)
    /\ plans_file \in {<<p>> : p \in DiscountPlans}
    /\ raw_file = <<>>
    /\ InitObject

NextDiscount ==
    \/ LoadData
    \/ IdentifyActiveMonths({Frac(20, 100)})
    \/ CalculatePlanSavings

SpecDiscount == InitDiscount /\ [][NextDiscount]_vars

-----------------------------------------------------------------------------
(* Properties: discount windows (SpecWindow) *)

LexLt(a, b) == a[1] < b[1] \/ (a[1] = b[1] /\ a[2] < b[2])
LexLe(a, b) == a = b \/ LexLt(a, b)

\* The day set the range Day_i-Day_j denotes: inclusive, wrapping over the week end.
DaySetOf(i, j) == IF i <= j THEN i..j ELSE (i..6) \cup (0..j)

\* The day ranges used by the window plans: Sunday-Thursday and Friday-Sunday.
WindowDayRanges == {<<6, 3>>, <<4, 6>>}

\* The last call evaluated the window plan with days d and hours s-e and returned.
EvaluatedWindow(d, s, e) ==
    /\ result.op = "calculate_plan_savings"
    /\ result.out.status = "ok"
    /\ result.arg = Plan("w", DayRangeStr(d[1], d[2], "Title"), TimeRangeStr(s, e), 10)

RECURSIVE SumKwh(_, _)
SumKwh(rows, idxs) ==
    IF idxs = {} THEN 0
    ELSE LET i == CHOOSE x \in idxs : TRUE
         IN rows[i].kwh_consumption + SumKwh(rows, idxs \ {i})

\* kWh of the loaded readings of active months that fall on a day of days and
\* at a time of day passing InWindow.
ExpectedDiscounted(days, InWindow(_)) ==
    LET rows == consumption_data.rows
    IN SumKwh(rows, {i \in 1..Len(rows) :
                        /\ YearMonth(rows[i].timestamp) \in Range(active_months)
                        /\ Weekday(rows[i].timestamp) \in days
                        /\ InWindow(<<rows[i].timestamp.hour, rows[i].timestamp.minute>>)})

\* C1: for a window whose start is later than its end, exactly the readings of
\* active months on a day of the plan at a time >= start or < end are discounted.
C1_OvernightWindow ==
    \A d \in WindowDayRanges, s \in BoundaryTimes, e \in BoundaryTimes :
        (EvaluatedWindow(d, s, e) /\ LexLt(e, s)) =>
            LET In(t) == LexLe(s, t) \/ LexLt(t, e)
            IN result.out.value.discounted_consumption
                   = ExpectedDiscounted(DaySetOf(d[1], d[2]), In)

\* C2: for a window with start <= end, exactly the readings of active months on
\* a day of the plan at a time with start <= time < end are discounted.
C2_SameDayWindow ==
    \A d \in WindowDayRanges, s \in BoundaryTimes, e \in BoundaryTimes :
        (EvaluatedWindow(d, s, e) /\ LexLe(s, e)) =>
            LET In(t) == LexLe(s, t) /\ LexLt(t, e)
            IN result.out.value.discounted_consumption
                   = ExpectedDiscounted(DaySetOf(d[1], d[2]), In)

\* A Monday reading at 07:00 is discounted by the plan Sunday-Thursday 07:00-17:00.
C2_Witness ==
    /\ EvaluatedWindow(<<6, 3>>, <<7, 0>>, <<17, 0>>)
    /\ consumption_data.rows = <<Reading(Stamp(2024, 1, 1, 7, 0), 3)>>
    /\ result.out.value.discounted_consumption = 3

\* C3: a window whose end is earlier than its start within the same hour is an
\* overnight window too: it discounts exactly the times >= start or < end.
C3_SameHourOvernight ==
    \A d \in WindowDayRanges, s \in BoundaryTimes, e \in BoundaryTimes :
        (EvaluatedWindow(d, s, e) /\ s[1] = e[1] /\ e[2] < s[2]) =>
            LET In(t) == ~(LexLe(e, t) /\ LexLt(t, s))
            IN result.out.value.discounted_consumption
                   = ExpectedDiscounted(DaySetOf(d[1], d[2]), In)

\* C4: a window whose start equals its end discounts nothing.
C4_DegenerateWindow ==
    \A d \in WindowDayRanges, s \in BoundaryTimes :
        EvaluatedWindow(d, s, s) => result.out.value.discounted_consumption = 0

\* A Monday reading at 09:00 against the plan Sunday-Thursday 09:00-09:00.
C4_Witness ==
    /\ EvaluatedWindow(<<6, 3>>, <<9, 0>>, <<9, 0>>)
    /\ consumption_data.rows = <<Reading(Stamp(2024, 1, 1, 9, 0), 3)>>
    /\ result.out.value.total_consumption = 3
    /\ result.out.value.discounted_consumption = 0

-----------------------------------------------------------------------------
(* Properties: day ranges (SpecParse) *)

\* C5: "Day_i-Day_j" in any spelling parses to the inclusive range, wrapping over
\* the week end when i > j, without duplicates and never empty; a single day
\* name parses to that one day.
C5_DayRange ==
    \A i \in 0..6, c \in Casings :
        /\ \A j \in 0..6 :
              (result.op = "parse_day_range" /\ result.arg = DayRangeStr(i, j, c)) =>
                  /\ result.out.status = "ok"
                  /\ Range(result.out.value) = DaySetOf(i, j)
                  /\ Len(result.out.value) = Cardinality(DaySetOf(i, j))
                  /\ Len(result.out.value) > 0
        /\ (result.op = "parse_day_range" /\ result.arg = DayStr(i, c)) =>
              /\ result.out.status = "ok"
              /\ result.out.value = <<i>>

\* "Sunday-Thursday" parsed to Sunday, Monday, Tuesday, Wednesday, Thursday.
C5_Witness ==
    /\ result.op = "parse_day_range"
    /\ result.arg = <<"S","u","n","d","a","y","-","T","h","u","r","s","d","a","y">>
    /\ result.out.status = "ok"
    /\ Range(result.out.value) = {6, 0, 1, 2, 3}

-----------------------------------------------------------------------------
(* Properties: active months (SpecMonths) *)

LoadedMonths == {YearMonth(consumption_data.rows[i].timestamp) :
                    i \in 1..Len(consumption_data.rows)}

TotalOfMonth(ym) ==
    LET rows == consumption_data.rows
    IN SumKwh(rows, {i \in 1..Len(rows) : YearMonth(rows[i].timestamp) = ym})

\* The last call was identify_active_months on loaded data.
Identified == result.op = "identify_active_months" /\ consumption_data # None

\* C6: a month is active iff its total is >= threshold * the largest monthly
\* total, equality included; with every total zero all months are active, and
\* the call raises nothing.
C6_ActiveMonths ==
    Identified =>
        /\ result.out.status = "ok"
        /\ result.out.value = active_months
        /\ Range(active_months) \subseteq LoadedMonths
        /\ \A ym \in LoadedMonths :
              ym \in Range(active_months) <=>
                  \A other \in LoadedMonths :
                      TotalOfMonth(ym) * result.arg[2]
                          >= result.arg[1] * TotalOfMonth(other)
        /\ (\A ym \in LoadedMonths : TotalOfMonth(ym) = 0) =>
              Range(active_months) = LoadedMonths

\* Monthly totals 100, 15, 30, 5 at threshold 0.20: the months of 100 and 30.
C6_Witness ==
    /\ Identified
    /\ result.arg = Frac(20, 100)
    /\ Len(consumption_data.rows) = 4
    /\ TotalOfMonth(<<2024, 1>>) = 100
    /\ TotalOfMonth(<<2024, 2>>) = 15
    /\ TotalOfMonth(<<2024, 3>>) = 30
    /\ TotalOfMonth(<<2024, 4>>) = 5
    /\ active_months = <<<<2024, 1>>, <<2024, 3>>>>

-----------------------------------------------------------------------------
(* Properties: plan evaluation and ranking (Spec) *)

\* The schedules of the two catalog plans of Spec: "day" is Sunday-Thursday
\* 07:00-17:00, "night" is Monday-Friday 23:00-07:00.
PlanDays(name) == IF name = "day" THEN DaySetOf(6, 3) ELSE DaySetOf(0, 4)
PlanCovers(name, t) ==
    IF name = "day" THEN LexLe(<<7, 0>>, t) /\ LexLt(t, <<17, 0>>)
    ELSE LexLe(<<23, 0>>, t) \/ LexLt(t, <<7, 0>>)

\* The last call was calculate_plan_savings and it returned a report.
Evaluated == result.op = "calculate_plan_savings" /\ result.out.status = "ok"

ActiveRows ==
    {i \in 1..Len(consumption_data.rows) :
        YearMonth(consumption_data.rows[i].timestamp) \in Range(active_months)}

\* C7: total_kwh is the sum over the readings of active months, discounted_kwh
\* the sum over the eligible ones among them (each reading counted, equal
\* timestamps included), and 0 <= discounted_kwh <= total_kwh.
C7_DiscountedWithinTotal ==
    Evaluated =>
        LET v == result.out.value
            In(t) == PlanCovers(result.arg.plan_name, t)
        IN /\ 0 <= v.discounted_consumption
           /\ v.discounted_consumption <= v.total_consumption
           /\ v.total_consumption = SumKwh(consumption_data.rows, ActiveRows)
           /\ v.discounted_consumption
                  = ExpectedDiscounted(PlanDays(result.arg.plan_name), In)

\* Two readings of 1 and 6 kWh at the same instant, both eligible: 7 of 7 kWh.
C7_Witness ==
    /\ Evaluated
    /\ result.arg.plan_name = "day"
    /\ consumption_data.rows = <<Reading(Stamp(2024, 1, 1, 8, 0), 1),
                                 Reading(Stamp(2024, 1, 1, 8, 0), 6)>>
    /\ result.out.value.discounted_consumption = 7
    /\ result.out.value.total_consumption = 7

\* C8: total savings = discounted_kwh * discount_pct / 100; monthly savings and
\* monthly consumption are total savings and total_kwh divided by the number
\* of active months.
C8_MonthlyFigures ==
    (Evaluated /\ "total_savings" \in DOMAIN result.out.value) =>
        LET v == result.out.value
            pct == result.arg.price_percentage_off
            n == Cardinality(Range(active_months))
        IN /\ n > 0
           /\ v.num_active_months = n
           /\ v.total_savings = Frac(v.discounted_consumption * pct, 100)
           /\ v.monthly_savings = Frac(v.discounted_consumption * pct, 100 * n)
           /\ v.monthly_consumption = Frac(v.total_consumption, n)

\* Two active months, eligible readings in one of them only: 6 kWh at 10 % over
\* two months is 3/10 kWh a month.
C8_Witness ==
    /\ Evaluated
    /\ result.arg.plan_name = "day"
    /\ consumption_data.rows = <<Reading(Stamp(2024, 1, 1, 8, 0), 6),
                                 Reading(Stamp(2024, 2, 2, 8, 0), 6)>>
    /\ Len(active_months) = 2
    /\ result.out.value.discounted_consumption = 6
    /\ result.out.value.total_consumption = 12
    /\ result.out.value.monthly_savings = <<3, 10>>
    /\ result.out.value.monthly_consumption = <<6, 1>>

\* The last call was generate_recommendations and it returned a ranking.
Ranked == result.op = "generate_recommendations" /\ result.out.status = "ok"

\* C9: the ranking has exactly one row per catalog plan and is ordered by
\* monthly_savings_kwh, descending.
C9_RankedDescending ==
    Ranked =>
        LET rows == result.out.value
            n == Len(plans_data.rows)
        IN /\ Len(rows) = n
           /\ {rows[k].idx : k \in 1..Len(rows)} = 1..n
           /\ \A k \in 1..Len(rows) :
                 rows[k].plan_name = plans_data.rows[rows[k].idx].plan_name
           /\ \A k \in 1..(Len(rows) - 1) :
                 FLe(rows[k + 1].monthly_savings_kwh, rows[k].monthly_savings_kwh)

\* The second plan of the catalog saves strictly more and is ranked first.
C9_Witness ==
    /\ Ranked
    /\ Len(result.out.value) = 2
    /\ result.out.value[1].idx = 2
    /\ FLt(result.out.value[2].monthly_savings_kwh, result.out.value[1].monthly_savings_kwh)

\* C10: plans with equal monthly_savings_kwh keep their catalog order.
C10_StableRanking ==
    Ranked =>
        LET rows == result.out.value
        IN \A k \in 1..Len(rows), l \in 1..Len(rows) :
              (k < l /\ rows[k].monthly_savings_kwh = rows[l].monthly_savings_kwh)
                  => rows[k].idx < rows[l].idx

-----------------------------------------------------------------------------
(* Properties: error handling *)

\* C11: identify_active_months never returns normally when the loaded series
\* has no readings.
C11_EmptySeriesFails ==
    (Identified /\ Len(consumption_data.rows) = 0) => result.out.status # "ok"

\* C12: generate_recommendations called with no data loaded raises 'Data not
\* loaded'; called with data loaded and an empty active-month set it raises
\* 'No active months identified'; either way it returns nothing and leaves the
\* frames and the active months as they were.
C12_FatalWithoutActiveMonths ==
    [][(/\ result'.op = "generate_recommendations"
        /\ (consumption_data = None \/ Len(active_months) = 0))
       => /\ result'.out.status = "ValueError"
          /\ result'.out.message = IF consumption_data = None
                                   THEN "Data not loaded"
                                   ELSE "No active months identified"
          /\ "value" \notin DOMAIN result'.out
          /\ UNCHANGED <<consumption_data, plans_data, active_months>>]_vars

\* identify_active_months selected nothing from an empty file; the catalog
\* starts with an unparsable plan, whose error is not the one raised.
C12_Witness ==
    /\ result.op = "generate_recommendations"
    /\ consumption_data = Frame(<<>>, TRUE)
    /\ active_months = <<>>
    /\ Len(plans_data.rows) = 2
    /\ plans_data.rows[1] = BadDaysPlan
    /\ result.out = [status |-> "ValueError", message |-> "No active months identified"]

\* The catalog rows that cannot be parsed.
BadRows ==
    {i \in 1..Len(plans_data.rows) : plans_data.rows[i] \in {BadDaysPlan, BadHoursPlan}}

\* generate_recommendations was called past its two checks.
RankingAttempted ==
    /\ result.op = "generate_recommendations"
    /\ consumption_data # None
    /\ Len(active_months) > 0

\* C13 as stated: an unparsable plan is left out and every other plan of the
\* catalog is ranked, so the call returns a ranking of the parsable plans.
C13_PlanIsolated ==
    (RankingAttempted /\ consumption_data.has_year_month
        /\ BadRows # 1..Len(plans_data.rows)) =>
        /\ result.out.status = "ok"
        /\ {result.out.value[k].idx : k \in 1..Len(result.out.value)}
               = (1..Len(plans_data.rows)) \ BadRows

\* C13, amended: with an unparsable plan in the catalog the call raises and
\* returns no ranking; when the frame carries its month column the error is
\* that of the first unparsable plan (KeyError for a day name, ValueError for
\* the hours).
C13_BadPlanFailsBatch ==
    (RankingAttempted /\ BadRows # {}) =>
        LET first == CHOOSE i \in BadRows : \A j \in BadRows : i <= j
        IN /\ result.out.status # "ok"
           /\ "value" \notin DOMAIN result.out
           /\ consumption_data.has_year_month =>
                 result.out.status = IF plans_data.rows[first] = BadDaysPlan
                                     THEN "KeyError" ELSE "ValueError"

\* A parsable plan followed by one with malformed hours, over two active
\* months: the call raises the ValueError of the second plan.
C13_Witness ==
    /\ RankingAttempted
    /\ consumption_data.has_year_month
    /\ Len(active_months) = 2
    /\ Len(plans_data.rows) = 2
    /\ plans_data.rows[1].plan_name = "day"
    /\ plans_data.rows[2] = BadHoursPlan
    /\ result.out.status = "ValueError"

\* A day specification one of whose '-'-separated names is no day of the week.
HasUnknownDay(s) ==
    \E part \in Range(Split(s, "-")) : Lower(part) \notin Range(day_mapping)

\* HH:MM-HH:MM with two-digit fields, hours 00..23 and minutes 00..59.
WellFormedTimeRange(s) ==
    /\ Len(s) = 11
    /\ s[3] = ":" /\ s[6] = "-" /\ s[9] = ":"
    /\ \A i \in {1, 2, 4, 5, 7, 8, 10, 11} : IsDigit(s[i])
    /\ \A i \in {1, 7} : DigitVal(s[i]) * 10 + DigitVal(s[i + 1]) <= 23
    /\ \A i \in {4, 10} : DigitVal(s[i]) * 10 + DigitVal(s[i + 1]) <= 59

\* C14: parse_day_range raises for every day specification holding an
\* unrecognized day name, and parse_time_range raises for every time
\* specification that is not a well-formed HH:MM-HH:MM.
C14_MalformedScheduleFails ==
    /\ (result.op = "parse_day_range" /\ HasUnknownDay(result.arg))
           => result.out.status # "ok"
    /\ (result.op = "parse_time_range" /\ ~WellFormedTimeRange(result.arg))
           => result.out.status # "ok"

\* The seven fields of a savings report.
ReportFields ==
    {"total_consumption", "discounted_consumption", "monthly_savings",
     "monthly_consumption", "bill_savings_percentage",
     "applicable_consumption_percentage", "num_active_months"}

IsZero(x) == x = 0 \/ x = FZero

\* C15: calculate_plan_savings of a parsable plan, called on loaded data with
\* an empty active-month set, returns a report holding every one of the seven
\* fields, each equal to zero.
C15_EmptyActiveReport ==
    (/\ result.op = "calculate_plan_savings"
     /\ result.arg \in SpecPlans
     /\ consumption_data # None
     /\ Len(active_months) = 0) =>
        /\ result.out.status = "ok"
        /\ ReportFields \subseteq DOMAIN result.out.value
        /\ \A f \in ReportFields : IsZero(result.out.value[f])

\* The two guarded percentages and the all-zero result of an unused window,
\* read off a report v.
GuardedMetrics(v) ==
    /\ {"monthly_savings", "monthly_consumption", "bill_savings_percentage",
        "applicable_consumption_percentage"} \subseteq DOMAIN v
    /\ v.bill_savings_percentage
           = IF FLt(FZero, v.monthly_consumption)
             THEN FMul(FDiv(v.monthly_savings, v.monthly_consumption), FInt(100))
             ELSE FZero
    /\ v.applicable_consumption_percentage
           = IF v.total_consumption > 0
             THEN FMul(Frac(v.discounted_consumption, v.total_consumption), FInt(100))
             ELSE FZero
    /\ v.discounted_consumption = 0 =>
           /\ v.monthly_savings = FZero
           /\ v.bill_savings_percentage = FZero
           /\ v.applicable_consumption_percentage = FZero

\* C16: evaluating a parsable plan on loaded data never raises, and the report
\* carries bill_savings_pct and applicable_pct by their guarded formulas (0
\* when the divisor is 0); with no discounted kWh every savings figure is 0.
C16_DivisionGuarded ==
    (/\ result.op = "calculate_plan_savings"
     /\ result.arg \in SpecPlans
     /\ consumption_data # None
     /\ consumption_data.has_year_month) =>
        /\ result.out.status = "ok"
        /\ GuardedMetrics(result.out.value)

-----------------------------------------------------------------------------
(* Properties: hourly profile (SpecHourly) *)

\* C17: whenever the active-month set is empty, also after load_data alone,
\* get_hourly_consumption_data raises nothing and returns the empty mapping.
C17_EmptyProfileWithoutActiveMonths ==
    (result.op = "get_hourly_consumption_data" /\ Len(active_months) = 0) =>
        /\ result.out.status = "ok"
        /\ DOMAIN result.out.value = {}

\* The last call was get_hourly_consumption_data, on loaded data, and it
\* returned a mapping.
ProfileReturned ==
    /\ result.op = "get_hourly_consumption_data"
    /\ result.out.status = "ok"
    /\ consumption_data # None

\* The loaded readings of month ym taken during hour h, and their mean kWh.
ReadingsAt(ym, h) ==
    {i \in 1..Len(consumption_data.rows) :
        /\ YearMonth(consumption_data.rows[i].timestamp) = ym
        /\ consumption_data.rows[i].timestamp.hour = h}
MeanAt(ym, h) ==
    Frac(SumKwh(consumption_data.rows, ReadingsAt(ym, h)), Cardinality(ReadingsAt(ym, h)))

\* Every entry holds 24 values, none negative.
FullDays(v) ==
    \A key \in DOMAIN v :
        /\ Len(v[key]) = 24
        /\ \A h \in 1..24 : FLe(FZero, v[key][h])

\* C18 as stated: every entry has exactly 24 non-negative values; the value of
\* a month at an hour is the mean kWh of its readings at that hour, and 0 when
\* it has none.
C18_HourlyMeans ==
    ProfileReturned =>
        LET v == result.out.value
        IN /\ FullDays(v)
           /\ \A ym \in LoadedMonths : month_name(ym) \in DOMAIN v =>
                 \A h \in 0..23 :
                    v[month_name(ym)][h + 1]
                        = IF ReadingsAt(ym, h) = {} THEN FZero ELSE MeanAt(ym, h)

\* C18, amended: as above, the value being the mean rounded to three decimals.
C18_HourlyRoundedMeans ==
    ProfileReturned =>
        LET v == result.out.value
        IN /\ FullDays(v)
           /\ \A ym \in LoadedMonths : month_name(ym) \in DOMAIN v =>
                 \A h \in 0..23 :
                    v[month_name(ym)][h + 1]
                        = IF ReadingsAt(ym, h) = {} THEN FZero
                          ELSE Round(MeanAt(ym, h), 3)

\* Readings of 1, 1 and 6 kWh at 08:00 in January 2024: 2.667 at hour 8 and 0
\* at hour 23.
C18_Witness ==
    /\ ProfileReturned
    /\ DOMAIN result.out.value = {<<"2","0","2","4","-","0","1">>, Average}
    /\ Cardinality(ReadingsAt(<<2024, 1>>, 8)) = 3
    /\ result.out.value[<<"2","0","2","4","-","0","1">>][9] = <<2667, 1000>>
    /\ result.out.value[<<"2","0","2","4","-","0","1">>][24] = FZero

\* The n most recent months of a set, by (year, month).
MostRecent(S, n) == {m \in S : Cardinality({k \in S : MonthLt(m, k)}) < n}

\* The months the last identify_active_months call found active in the loaded
\* readings: those whose total reaches a fifth of the largest monthly total.
ActiveSet ==
    {ym \in LoadedMonths :
        \A other \in LoadedMonths : 5 * TotalOfMonth(ym) >= TotalOfMonth(other)}

\* C19: the per-month keys are the six most recent active months when more
\* than six are active, and all active months otherwise.
C19_RecentActiveKeys ==
    ProfileReturned =>
        /\ Range(active_months) = ActiveSet
        /\ DOMAIN result.out.value \ {Average}
               = {month_name(ym) : ym \in MostRecent(ActiveSet, 6)}

\* Seven active months, 2023-08 to 2024-02: 2023-08 is not a key, 2023-09 and
\* 2024-02 are.
C19_Witness ==
    /\ ProfileReturned
    /\ Cardinality(ActiveSet) = 7
    /\ Cardinality(DOMAIN result.out.value) = 7
    /\ <<"2","0","2","3","-","0","8">> \notin DOMAIN result.out.value
    /\ <<"2","0","2","3","-","0","9">> \in DOMAIN result.out.value
    /\ <<"2","0","2","4","-","0","2">> \in DOMAIN result.out.value

\* The sum, over the given keys, of the values stored for position h.
RECURSIVE KeySum(_, _, _)
KeySum(v, keys, h) ==
    IF keys = {} THEN FZero
    ELSE LET key == CHOOSE x \in keys : TRUE
         IN FAdd(v[key][h], KeySum(v, keys \ {key}, h))

\* The mean over the per-month entries of v of their values at position h.
MeanOfMonths(v, h) ==
    FDiv(KeySum(v, DOMAIN v \ {Average}, h), FInt(Cardinality(DOMAIN v \ {Average})))

\* C20 as stated: at each hour the 'average' entry is the arithmetic mean of
\* the per-month entries' values at that hour, one value per month.
C20_AverageOfMonths ==
    (ProfileReturned /\ DOMAIN result.out.value # {}) =>
        /\ Average \in DOMAIN result.out.value
        /\ \A h \in 1..24 :
              result.out.value[Average][h] = MeanOfMonths(result.out.value, h)

\* C20, amended: as above, the mean being rounded to three decimals.
C20_RoundedAverageOfMonths ==
    (ProfileReturned /\ DOMAIN result.out.value # {}) =>
        /\ Average \in DOMAIN result.out.value
        /\ \A h \in 1..24 :
              result.out.value[Average][h]
                  = Round(MeanOfMonths(result.out.value, h), 3)

\* January has two readings of 1 kWh at 08:00 and February one of 6 kWh: the
\* average at hour 8 is (1 + 6) / 2, each month once, and 0 at hour 23.
C20_Witness ==
    /\ ProfileReturned
    /\ consumption_data.rows = <<Reading(Stamp(2024, 1, 1, 8, 0), 1),
                                 Reading(Stamp(2024, 1, 1, 8, 0), 1),
                                 Reading(Stamp(2024, 2, 1, 8, 0), 6)>>
    /\ Cardinality(DOMAIN result.out.value) = 3
    /\ result.out.value[Average][9] = <<7, 2>>
    /\ result.out.value[Average][24] = FZero

-----------------------------------------------------------------------------
(* Properties: repeated and concurrent evaluation *)

FrameAsSetUp ==
    IF consumption_data = None THEN None
    ELSE Frame(consumption_file, consumption_data.has_year_month)

\* C22: evaluations running concurrently leave consumption_data as it was set
\* up, and under every interleaving each finished evaluation has the outcome
\* of a sequential calculate_plan_savings for its plan.
C22_ConcurrentReadOnly ==
    /\ consumption_data = FrameAsSetUp
    /\ \A k \in 1..Len(evaluations) :
          evaluations[k].pc = "done" =>
              evaluations[k].out
                  = calculate_plan_savings(evaluations[k].plan, FrameAsSetUp,
                                           active_months)

\* The night plan finished (6 of the 12 kWh of February, the one active month)
\* while the evaluation of the day plan, started before it, has only taken its
\* copy of the rows.
C22_Witness ==
    /\ Len(evaluations) = 2
    /\ evaluations[1].pc = "filtered"
    /\ evaluations[1].plan.plan_name = "day"
    /\ evaluations[2].pc = "done"
    /\ evaluations[2].plan.plan_name = "night"
    /\ evaluations[2].out.status = "ok"
    /\ evaluations[2].out.value.discounted_consumption = 6
    /\ evaluations[2].out.value.total_consumption = 12

-----------------------------------------------------------------------------
(* Properties: rounding and the best plan (SpecRounding) *)

\* The unrounded monthly savings of a plan of RoundingPlans, from the loaded
\* readings: its discount applied to the kWh of active months read Sunday to
\* Thursday between 07:00 and 17:00, per active month.
InDayWindow(t) == LexLe(<<7, 0>>, t) /\ LexLt(t, <<17, 0>>)
UnroundedSavings(pct) ==
    Frac(ExpectedDiscounted(DaySetOf(6, 3), InDayWindow) * pct,
         100 * Cardinality(Range(active_months)))

\* The per-month keys of a profile and the mean over them of the unrounded
\* hourly means.
ProfileMonths == {ym \in LoadedMonths : month_name(ym) \in DOMAIN result.out.value}
RECURSIVE MeanSum(_, _)
MeanSum(months, h) ==
    IF months = {} THEN FZero
    ELSE LET ym == CHOOSE x \in months : TRUE
         IN FAdd(IF ReadingsAt(ym, h) = {} THEN FZero ELSE MeanAt(ym, h),
                 MeanSum(months \ {ym}, h))

\* C23: the report of a plan is unrounded; the currency figure of a ranked row
\* is the unrounded monthly savings times rate times tax, rounded once; the
\* rows are ordered by the unrounded monthly savings; the 'average' entry is
\* the rounded mean of the unrounded monthly means.
C23_RoundingAtBoundary ==
    /\ (Evaluated /\ "total_savings" \in DOMAIN result.out.value) =>
           result.out.value.monthly_savings
               = UnroundedSavings(result.arg.price_percentage_off)
    /\ Ranked =>
           LET rows == result.out.value
           IN /\ \A k \in 1..Len(rows) :
                    rows[k].monthly_savings_nis
                        = Round(FMul(UnroundedSavings(rows[k].discount_percentage),
                                     FMul(Frac(5425, 10000), Frac(118, 100))), 2)
              /\ \A k \in 1..(Len(rows) - 1) :
                    FLe(UnroundedSavings(rows[k + 1].discount_percentage),
                        UnroundedSavings(rows[k].discount_percentage))
    /\ (ProfileReturned /\ DOMAIN result.out.value # {}) =>
           \A h \in 0..23 :
               result.out.value[Average][h + 1]
                   = Round(FDiv(MeanSum(ProfileMonths, h),
                                FInt(Cardinality(ProfileMonths))), 3)

-----------------------------------------------------------------------------
(* Properties: ingestion (SpecIngest) *)

\* The rows of the export, in file order, and the readings its well-formed
\* rows state.
InputRows(file) ==
    LET lines == SelectSeq(file, LAMBDA l : l \in DOMAIN RowOfLine)
    IN [i \in 1..Len(lines) |-> RowOfLine[lines[i]]]

StatedReadings(file) ==
    LET rows == SelectSeq(InputRows(file), LAMBDA r : r.well_formed)
    IN [i \in 1..Len(rows) |-> rows[i].reading]

Occurrences(seq, x) == Cardinality({i \in 1..Len(seq) : seq[i] = x})

SameReadings(a, b) ==
    \A x \in Range(a) \cup Range(b) : Occurrences(a, x) = Occurrences(b, x)

HasHeader(file) == \E i \in 1..Len(file) : file[i] = HeaderLine

\* C24: the cleaned stream is non-decreasing in the timestamp, holds no row
\* whose date or time is empty or malformed, and holds every row with a
\* well-formed date and time exactly once, duplicates included.
C24_CleanedStream ==
    result.op = "parse_consumption_file" =>
        /\ result.out.status = "ok" =>
              /\ Chronological(result.out.value)
              /\ SameReadings(result.out.value, StatedReadings(raw_file))
        /\ (HasHeader(raw_file) /\ StatedReadings(raw_file) # <<>>) =>
              result.out.status = "ok"

\* An export with a malformed row and two well-formed rows out of order, both
\* written.
C24_Witness ==
    /\ result.op = "parse_consumption_file"
    /\ result.out.status = "ok"
    /\ Len(result.out.value) = 2
    /\ Len(InputRows(raw_file)) = 3
    /\ ~Chronological(StatedReadings(raw_file))

-----------------------------------------------------------------------------
(* Properties: the month set across reloads (Spec) *)

\* C25: after any sequence of load_data and identify_active_months calls,
\* active_months is the active set of the frame now loaded, for the threshold
\* of the latest identify_active_months call: replaced by each call, and never
\* a set computed from a frame that load_data has since replaced, so that the
\* frame carries the month column whenever both guards of
\* generate_recommendations pass.
C25_ActiveMonthsCurrent ==
    /\ (Identified /\ Len(consumption_data.rows) > 0) =>
          active_months = ActiveMonthsOf(consumption_data.rows, result.arg)
    /\ (consumption_data # None /\ active_months # <<>>) =>
          /\ consumption_data.has_year_month
          /\ \E t \in SpecThresholds :
                active_months = ActiveMonthsOf(consumption_data.rows, t)

-----------------------------------------------------------------------------
(* Properties: the best plan (SpecRounding) *)

\* C26: the first ranked row has the maximum savings of the catalog: no row
\* has a strictly greater unrounded monthly savings or a strictly greater
\* monthly_savings_nis, and the rows are non-increasing in monthly_savings_nis.
C26_FirstRowIsBest ==
    (Ranked /\ Len(result.out.value) > 0) =>
        LET rows == result.out.value
        IN /\ \A k \in 1..Len(rows) :
                 /\ ~FLt(UnroundedSavings(rows[1].discount_percentage),
                         UnroundedSavings(rows[k].discount_percentage))
                 /\ ~FLt(rows[1].monthly_savings_nis, rows[k].monthly_savings_nis)
           /\ \A k \in 1..(Len(rows) - 1) :
                 FLe(rows[k + 1].monthly_savings_nis, rows[k].monthly_savings_nis)

-----------------------------------------------------------------------------
(* Properties: the month set is never empty (SpecActive) *)

NonNegativeReadings ==
    \A i \in 1..Len(consumption_data.rows) : consumption_data.rows[i].kwh_consumption >= 0

IsMaxMonth(ym) == \A other \in LoadedMonths : TotalOfMonth(other) <= TotalOfMonth(ym)

\* C27: on a non-empty series of non-negative readings and a threshold in
\* [0, 1], identify_active_months raises nothing and returns a non-empty list
\* that holds every month whose total is the largest monthly total.
C27_ActiveNonEmpty ==
    (/\ Identified
     /\ Len(consumption_data.rows) > 0
     /\ NonNegativeReadings
     /\ FLe(FZero, result.arg) /\ FLe(result.arg, FInt(1))) =>
        /\ result.out.status = "ok"
        /\ result.out.value = active_months
        /\ active_months # <<>>
        /\ \A ym \in LoadedMonths : IsMaxMonth(ym) => ym \in Range(active_months)

\* Threshold 1 over three months, two of them sharing the largest total: the
\* two are returned.
C27_Witness ==
    /\ Identified
    /\ Len(consumption_data.rows) > 0
    /\ NonNegativeReadings
    /\ result.arg = FInt(1)
    /\ Cardinality(LoadedMonths) = 3
    /\ Cardinality({ym \in LoadedMonths : IsMaxMonth(ym)}) = 2
    /\ Len(active_months) = 2
    /\ TotalOfMonth(active_months[1]) > 0

-----------------------------------------------------------------------------
(* Properties: savings within the discount (SpecDiscount) *)

\* C28: for a discount between 0 and 100 percent and non-negative readings,
\* bill_savings_percentage = applicable_consumption_percentage * discount / 100,
\* 0 <= bill_savings_percentage <= discount <= 100, and the monthly savings do
\* not exceed the monthly consumption.
C28_SavingsWithinDiscount ==
    (/\ Evaluated
     /\ "bill_savings_percentage" \in DOMAIN result.out.value
     /\ result.arg.price_percentage_off \in 0..100
     /\ NonNegativeReadings) =>
        LET v == result.out.value
            discount_pct == FInt(result.arg.price_percentage_off)
        IN /\ v.bill_savings_percentage
                  = FDiv(FMul(v.applicable_consumption_percentage, discount_pct), FInt(100))
           /\ FLe(FZero, v.bill_savings_percentage)
           /\ FLe(v.bill_savings_percentage, discount_pct)
           /\ FLe(discount_pct, FInt(100))
           /\ FLe(v.monthly_savings, v.monthly_consumption)

\* 30 percent off, 6 of 12 kWh in the window: 15 percent of the bill.
C28_Witness ==
    /\ Evaluated
    /\ "bill_savings_percentage" \in DOMAIN result.out.value
    /\ NonNegativeReadings
    /\ result.arg.price_percentage_off = 30
    /\ result.out.value.total_consumption = 12
    /\ result.out.value.discounted_consumption = 6
    /\ result.out.value.bill_savings_percentage = FInt(15)

====
